---- MODULE Spec2Model ----
(***************************************************************************)
(* gocshell (src/main.go, lines 1-264): the read-eval loop, the parser,    *)
(* the builtin dispatcher, the per-pipeline signal handler and the         *)
(* pipeline executor, together with the processes it spawns and the        *)
(* interrupt source of the environment.                                    *)
(*                                                                         *)
(* A line is a sequence of one-character strings.                          *)
(***************************************************************************)
EXTENDS Naturals, Sequences, FiniteSets

\* ------------------------------------------------------------------ bounds
\* Lines (ended by a newline) the shell reads before the model stops reading.
MaxLines == 1
\* Interrupts (SIGINT) the environment delivers to the shell.
MaxInterrupts == 2

\* ------------------------------------------------------------- characters
NL == "\n"
SP == " "
TAB == "\t"
BAR == "|"

\* unicode.IsSpace, restricted to the characters of the model
IsSpace(c) == c \in {SP, TAB, NL}

\* --------------------------------------------------------- strings package
RECURSIVE TrimLeft(_)
TrimLeft(s) ==
    IF s = <<>> THEN s
    ELSE IF IsSpace(Head(s)) THEN TrimLeft(Tail(s)) ELSE s

RECURSIVE TrimRight(_)
TrimRight(s) ==
    IF s = <<>> THEN s
    ELSE IF IsSpace(s[Len(s)]) THEN TrimRight(SubSeq(s, 1, Len(s) - 1)) ELSE s

\* strings.TrimSpace
TrimSpace(s) == TrimRight(TrimLeft(s))

\* a split at the first separator only (strings.SplitN(s, sep, 2))
SplitAtFirst(s, sep) ==
    IF \A k \in 1..Len(s) : s[k] # sep THEN <<s>>
    ELSE LET k == CHOOSE j \in 1..Len(s) :
                      /\ s[j] = sep
                      /\ \A m \in 1..(j - 1) : s[m] # sep
         IN  <<SubSeq(s, 1, k - 1), SubSeq(s, k + 1, Len(s))>>

\* strings.Split(s, sep) for a one-character separator: always at least one
\* segment, empty segments kept
RECURSIVE Split(_, _)
Split(s, sep) ==
    IF \A k \in 1..Len(s) : s[k] # sep THEN <<s>>
    ELSE LET k == CHOOSE j \in 1..Len(s) :
                      /\ s[j] = sep
                      /\ \A m \in 1..(j - 1) : s[m] # sep
         IN  <<SubSeq(s, 1, k - 1)>> \o Split(SubSeq(s, k + 1, Len(s)), sep)

\* the first whitespace-free run of s (s starts with a non-space character)
RECURSIVE FirstWord(_)
FirstWord(s) ==
    IF s = <<>> \/ IsSpace(Head(s)) THEN <<>>
    ELSE <<Head(s)>> \o FirstWord(Tail(s))

\* strings.Fields: the maximal whitespace-free runs of s, in order
RECURSIVE Fields(_)
Fields(s) ==
    LET t == TrimLeft(s)
    IN  IF t = <<>> THEN <<>>
        ELSE LET w == FirstWord(t)
             IN  <<w>> \o Fields(SubSeq(t, Len(w) + 1, Len(t)))

\* ------------------------------------------------------------------ errors
Nil == "nil"
SyntaxError == "SyntaxError"              \* fmt.Errorf("invalid input: ...")
BuiltinInPipeline == "BuiltinInPipeline"  \* fmt.Errorf("cannot use built-in ...")
PipeError == "PipeError"                  \* StdoutPipe failed
StartError == "StartError"                \* Start failed (executable not found, ...)
CtxCanceled == "CtxCanceled"              \* Start refused: the context is done
ExitError == "ExitError"                  \* the process exited nonzero by itself
Killed == "Killed"                        \* the process was killed by the context
ChdirError == "ChdirError"                \* os.Chdir failed
HistoryReadError == "HistoryReadError"    \* displayHistory failed
WriteError == "WriteError"                \* historyFile.WriteString failed

\* ------------------------------------------------------------------ parser
Command(name, args) == [name |-> name, args |-> args]

\* the loop of parseInput skipping a segment with no field instead of
\* failing on it
RECURSIVE parseStagesSkipEmpty(_, _)
parseStagesSkipEmpty(pipedInputs, commands) ==
    IF pipedInputs = <<>> THEN [commands |-> commands, err |-> Nil]
    ELSE LET parts == Fields(TrimSpace(Head(pipedInputs)))
         IN  IF Len(parts) = 0
             THEN parseStagesSkipEmpty(Tail(pipedInputs), commands)
             ELSE parseStagesSkipEmpty(Tail(pipedInputs),
                              Append(commands, Command(Head(parts), Tail(parts))))

\* the loop of parseInput over the segments: the first segment with no field
\* aborts the whole line with no stage returned
RECURSIVE parseStages(_, _)
parseStages(pipedInputs, commands) ==
    IF pipedInputs = <<>> THEN [commands |-> commands, err |-> Nil]
    ELSE LET parts == Fields(TrimSpace(Head(pipedInputs)))
         IN  IF Len(parts) = 0
             THEN [commands |-> <<>>, err |-> SyntaxError]
             ELSE parseStages(Tail(pipedInputs),
                              Append(commands, Command(Head(parts), Tail(parts))))

parseInput(input) ==
    LET trimmed == TrimSpace(input)
    IN  IF trimmed = <<>> THEN [commands |-> <<>>, err |-> Nil]
        ELSE parseStages(Split(trimmed, BAR), <<>>)

\* ------------------------------------------------------- names of commands
CD == <<"c", "d">>
EXIT == <<"e", "x", "i", "t">>
HISTORY == <<"h", "i", "s", "t", "o", "r", "y">>
LS == <<"l", "s">>
WC == <<"w", "c">>

\* os.Getenv("HOME") and the directory the shell starts in
Home == <<"/", "h">>
StartDir == <<"/">>

\* the lines standard input can deliver, each ended by a newline
Lines ==
    { <<NL>>,
      LS \o <<NL>>,
      CD \o <<NL>>,
      CD \o <<SP, "x", NL>>,
      EXIT \o <<NL>>,
      HISTORY \o <<NL>>,
      LS \o <<BAR>> \o WC \o <<NL>>,
      CD \o <<SP, BAR, SP>> \o LS \o <<NL>>,
      LS \o <<BAR>> \o EXIT \o <<NL>>,
      LS \o <<SP, BAR, SP, BAR, SP>> \o WC \o <<NL>>,
      LS \o <<BAR>> \o WC \o <<SP, "x", BAR>> \o WC \o <<NL>> }

\* what a read that hits end-of-input returns: a last line with no newline,
\* or nothing
LastLines == { <<>>, LS, LS \o <<BAR>> \o WC }


\* ------------------------------------------------------------------- state
VARIABLES
    pc,          \* where main is: init, read, exec, check, pipe, start, wait,
                 \* log, exited (os.Exit), killed (SIGINT with no subscription)
    historyFile, \* the handle: "nil" (not opened), "open", "closed"
    history,     \* the entries appended to the log by this shell, in order
    cwd,         \* the working directory of the shell
    eof,         \* standard input has reached its end
    nread,       \* newline-terminated lines read so far
    input,       \* the raw line of this iteration
    commands,    \* the pipeline parseInput returned for it
    handlers,    \* one record per setupSignalHandler call, in call order
    procs,       \* the exec.Cmd of each stage of this pipeline
    idx,         \* the loop index of the Start loop and of the Wait loop
    orphans,     \* processes of earlier pipelines that are still running
    err,         \* the error the executor ran into (before handleCommandError)
    ctxErr,      \* ctx.Err() as handleCommandError read it ("unread" if not called)
    result,      \* what executePipeline returned to main
    newlines,    \* newlines handleCommandError printed for this pipeline
    printed,     \* the error main printed for this line (Nil: none)
    appended,    \* entries saveHistory wrote for this line
    saveErr,     \* what saveHistory returned for this line
    intr         \* interrupts delivered so far

vars == <<pc, historyFile, history, cwd, eof, nread, input, commands, handlers,
          procs, idx, orphans, err, ctxErr, result, newlines, printed,
          appended, saveErr, intr>>

\* a stream an exec.Cmd can be given: one of the shell's own, an end of the
\* pipe made for stage i's output, or none (nil: the null device)
OsStdin == [kind |-> "os.Stdin", pipe |-> 0]
OsStdout == [kind |-> "os.Stdout", pipe |-> 0]
OsStderr == [kind |-> "os.Stderr", pipe |-> 0]
NilStream == [kind |-> "nil", pipe |-> 0]
PipeRead(i) == [kind |-> "read end", pipe |-> i]
PipeWrite(i) == [kind |-> "write end", pipe |-> i]

\* exec.Cmd: the state of its process, whether Wait has returned for it, and
\* its Stdin, Stdout and Stderr
Cmd(st, waited, stdin, stdout, stderr) ==
    [st |-> st, waited |-> waited,
     stdin |-> stdin, stdout |-> stdout, stderr |-> stderr]
Unstarted == "unstarted"
Running == "running"
ExitedOK == "exitedOK"
ExitedFail == "exitedFail"
KilledByCtx == "killed"

Init ==
    /\ pc = "init"
    /\ historyFile = "nil"
    /\ history = <<>>
    /\ cwd = StartDir
    /\ eof = FALSE
    /\ nread = 0
    /\ input = <<>>
    /\ commands = <<>>
    /\ handlers = <<>>
    /\ procs = <<>>
    /\ idx = 0
    /\ orphans = 0
    /\ err = Nil
    /\ ctxErr = "unread"
    /\ result = Nil
    /\ newlines = 0
    /\ printed = Nil
    /\ appended = 0
    /\ saveErr = Nil
    /\ intr = 0

\* --------------------------------------------------------------- operators
\* shouldBeInHistory without its test of the command's name
shouldBeInHistoryAnyName(cmds) == Len(cmds) > 0

\* shouldBeInHistory
shouldBeInHistory(cmds) ==
    IF Len(cmds) = 0 THEN FALSE
    ELSE IF Len(cmds) > 1 THEN TRUE
    ELSE cmds[1].name # HISTORY /\ cmds[1].name # EXIT

\* closeHistory: what it makes of the handle
closeHistory(h) == IF h # "nil" THEN "closed" ELSE h

\* setupSignalHandler: a fresh context, a channel of capacity 1 subscribed to
\* os.Interrupt and a goroutine blocked on the channel. got: an interrupt was
\* delivered to the channel.
setupSignalHandler ==
    [subscribed |-> TRUE, sigChan |-> 0, watcher |-> "blocked",
     cancelled |-> FALSE, got |-> FALSE]

\* cleanup that cancels the context but leaves the channel subscribed
cleanupWithoutStop(h) == [h EXCEPT !.cancelled = TRUE]

\* cleanup: signal.Stop(sigChan); cancel()
cleanup(h) == [h EXCEPT !.subscribed = FALSE, !.cancelled = TRUE]

\* handleCommandError that prints the newline but still returns the error
handleCommandErrorKeepsErr(cancelled, e) ==
    [ret |-> e, nl |-> IF e # Nil /\ cancelled THEN 1 ELSE 0]

\* handleCommandError: ret is the error returned, nl the newlines printed
handleCommandError(cancelled, e) ==
    IF e # Nil /\ cancelled THEN [ret |-> Nil, nl |-> 1]
    ELSE [ret |-> e, nl |-> 0]

\* executeCdCommand that goes home whatever its arguments
cdPathAlwaysHome(args) == Home

\* executeCdCommand: the path handed to os.Chdir
cdPath(args) == IF Len(args) = 0 THEN Home ELSE args[1]

\* the check for built-in commands looking at the first stage only
hasBuiltinFirstStage(cmds) == cmds[1].name = CD \/ cmds[1].name = EXIT

\* executePipeline's check for built-in commands in a pipeline
hasBuiltin(cmds) ==
    \E i \in 1..Len(cmds) : cmds[i].name = CD \/ cmds[i].name = EXIT

\* executePipeline: one exec.CommandContext per stage, no stream set
newCmds(n) ==
    [i \in 1..n |-> Cmd(Unstarted, FALSE, NilStream, NilStream, NilStream)]

\* executePipeline: the loop that connects the output of stage i to the input
\* of stage i+1, from stage i on (StdoutPipe sets cmds[i].Stdout)
RECURSIVE connectPipes(_, _)
connectPipes(cmds, i) ==
    IF i >= Len(cmds) THEN cmds
    ELSE connectPipes([cmds EXCEPT ![i].stdout = PipeWrite(i),
                                   ![i + 1].stdin = PipeRead(i)], i + 1)

\* the terminal streams with the shell's error stream given to every stage
wireTerminalAllStderr(cmds) ==
    [i \in 1..Len(cmds) |->
        [cmds[i] EXCEPT !.stdin = IF i = 1 THEN OsStdin ELSE @,
                        !.stdout = IF i = Len(cmds) THEN OsStdout ELSE @,
                        !.stderr = OsStderr]]

\* executePipeline: first command stdin and last command stdout and stderr
\* to the terminal
wireTerminal(cmds) ==
    [cmds EXCEPT ![1].stdin = OsStdin,
                 ![Len(cmds)].stdout = OsStdout,
                 ![Len(cmds)].stderr = OsStderr]

\* a loop over the stages that stops one stage early
lastStageOffByOne(i, cmds) == i >= Len(cmds) - 1

\* a range loop over the stages has just handled its last element
lastStage(i, cmds) == i = Len(cmds)

\* cmd.Wait: the error for a process that has ended
waitErr(st) ==
    IF st = ExitedOK THEN Nil
    ELSE IF st = ExitedFail THEN ExitError
    ELSE Killed

\* the context and handler of the pipeline being executed
Cur == handlers[Len(handlers)]

running(ps) == {i \in 1..Len(ps) : ps[i].st = Running}

\* a return of the executor once setupSignalHandler has run: the deferred
\* cleanup runs, then main has the result
Return(e, r, nl, ce) ==
    /\ err' = e
    /\ result' = r
    /\ newlines' = newlines + nl
    /\ ctxErr' = ce
    /\ handlers' = [handlers EXCEPT ![Len(handlers)] = cleanup(@)]
    /\ pc' = "log"

\* ----------------------------------------------------------------- actions
\* main: initHistory (the open may fail: history disabled)
InitHistory ==
    /\ pc = "init"
    /\ historyFile' \in {"open", "nil"}
    /\ pc' = "read"
    /\ UNCHANGED <<history, cwd, eof, nread, input, commands, handlers, procs,
                   idx, orphans, err, ctxErr, result, newlines, printed,
                   appended, saveErr, intr>>

\* main: prompt, reader.ReadString('\n') (its error dropped), parseInput;
\* a parse error is printed and the loop continues
ReadLine ==
    /\ pc = "read"
    /\ \E line \in Lines \cup LastLines :
          /\ \/ /\ eof
                /\ line = <<>>
                /\ UNCHANGED <<eof, nread>>
             \/ /\ ~eof
                /\ line \in Lines
                /\ nread < MaxLines
                /\ nread' = nread + 1
                /\ UNCHANGED eof
             \/ /\ ~eof
                /\ line \in LastLines
                /\ eof' = TRUE
                /\ UNCHANGED nread
          /\ LET p == parseInput(line)
             IN  /\ input' = line
                 /\ commands' = p.commands
                 /\ printed' = p.err
                 /\ pc' = IF p.err # Nil THEN "read" ELSE "exec"
    /\ orphans' = orphans + Cardinality(running(procs))
    /\ procs' = <<>>
    /\ idx' = 0
    /\ err' = Nil
    /\ ctxErr' = "unread"
    /\ result' = Nil
    /\ newlines' = 0
    /\ appended' = 0
    /\ saveErr' = Nil
    /\ UNCHANGED <<historyFile, history, cwd, handlers, intr>>

\* executePipeline: no command
ExecEmpty ==
    /\ pc = "exec"
    /\ Len(commands) = 0
    /\ result' = Nil
    /\ pc' = "log"
    /\ UNCHANGED <<historyFile, history, cwd, eof, nread, input, commands,
                   handlers, procs, idx, orphans, err, ctxErr, newlines,
                   printed, appended, saveErr, intr>>

\* executeSingleCommand: exit. os.Exit(0) runs no deferred function.
ExecExit ==
    /\ pc = "exec"
    /\ Len(commands) = 1
    /\ commands[1].name = EXIT
    /\ pc' = "exited"
    /\ UNCHANGED <<historyFile, history, cwd, eof, nread, input, commands,
                   handlers, procs, idx, orphans, err, ctxErr, result,
                   newlines, printed, appended, saveErr, intr>>

\* executeSingleCommand: cd. os.Chdir may fail.
ExecCd ==
    /\ pc = "exec"
    /\ Len(commands) = 1
    /\ commands[1].name = CD
    /\ \/ /\ cwd' = cdPath(commands[1].args)
          /\ err' = Nil
       \/ /\ err' = ChdirError
          /\ UNCHANGED cwd
    /\ result' = err'
    /\ pc' = "log"
    /\ UNCHANGED <<historyFile, history, eof, nread, input, commands,
                   handlers, procs, idx, orphans, ctxErr, newlines, printed,
                   appended, saveErr, intr>>

\* executeSingleCommand: history. displayHistory may fail.
ExecHistory ==
    /\ pc = "exec"
    /\ Len(commands) = 1
    /\ commands[1].name = HISTORY
    /\ err' \in {Nil, HistoryReadError}
    /\ result' = err'
    /\ pc' = "log"
    /\ UNCHANGED <<historyFile, history, cwd, eof, nread, input, commands,
                   handlers, procs, idx, orphans, ctxErr, newlines, printed,
                   appended, saveErr, intr>>

\* executeNotBuiltInCommand up to cmd.Run
ExecExternal ==
    /\ pc = "exec"
    /\ Len(commands) = 1
    /\ commands[1].name \notin {EXIT, CD, HISTORY}
    /\ handlers' = Append(handlers, setupSignalHandler)
    /\ procs' = <<Cmd(Unstarted, FALSE, OsStdin, OsStdout, OsStderr)>>
    /\ idx' = 1
    /\ pc' = "start"
    /\ UNCHANGED <<historyFile, history, cwd, eof, nread, input, commands,
                   orphans, err, ctxErr, result, newlines, printed, appended,
                   saveErr, intr>>

\* executePipeline, two stages or more: setupSignalHandler and defer cleanup
ExecMulti ==
    /\ pc = "exec"
    /\ Len(commands) > 1
    /\ handlers' = Append(handlers, setupSignalHandler)
    /\ pc' = "check"
    /\ UNCHANGED <<historyFile, history, cwd, eof, nread, input, commands,
                   procs, idx, orphans, err, ctxErr, result, newlines,
                   printed, appended, saveErr, intr>>

\* executePipeline: the check for built-in commands
CheckBuiltins ==
    /\ pc = "check"
    /\ IF hasBuiltin(commands)
       THEN Return(BuiltinInPipeline, BuiltinInPipeline, 0, "unread")
       ELSE /\ pc' = "pipe"
            /\ UNCHANGED <<handlers, err, ctxErr, result, newlines>>
    /\ UNCHANGED <<historyFile, history, cwd, eof, nread, input, commands,
                   procs, idx, orphans, printed, appended, saveErr, intr>>

\* executePipeline: the exec.Cmd of every stage, the pipes between them (a
\* StdoutPipe may fail) and the terminal streams
CreatePipes ==
    /\ pc = "pipe"
    /\ \/ /\ procs' = wireTerminal(connectPipes(newCmds(Len(commands)), 1))
          /\ pc' = "start"
          /\ idx' = 1
          /\ UNCHANGED <<handlers, err, ctxErr, result, newlines>>
       \/ /\ procs' = newCmds(Len(commands))
          /\ Return(PipeError, PipeError, 0, "unread")
          /\ UNCHANGED idx
    /\ UNCHANGED <<historyFile, history, cwd, eof, nread, input, commands,
                   orphans, printed, appended, saveErr, intr>>

\* cmd.Start of stage idx: refused when the context is done, else it may fail
\* by itself. A pipeline returns the error as it is; cmd.Run hands it to
\* executeNotBuiltInCommand, which passes it to handleCommandError.
StartStage ==
    /\ pc = "start"
    /\ \E e \in {Nil, StartError, CtxCanceled} :
          /\ e = CtxCanceled <=> Cur.cancelled
          /\ IF e = Nil
             THEN /\ procs' = [procs EXCEPT ![idx].st = Running]
                  /\ IF lastStage(idx, commands)
                     THEN pc' = "wait" /\ idx' = 1
                     ELSE pc' = "start" /\ idx' = idx + 1
                  /\ UNCHANGED <<handlers, err, ctxErr, result, newlines>>
             ELSE /\ IF Len(commands) > 1
                     THEN Return(e, e, 0, "unread")
                     ELSE /\ err' = e
                          /\ pc' = "handle"
                          /\ UNCHANGED <<handlers, ctxErr, result, newlines>>
                  /\ UNCHANGED <<procs, idx>>
    /\ UNCHANGED <<historyFile, history, cwd, eof, nread, input, commands,
                   orphans, printed, appended, saveErr, intr>>

\* cmd.Wait of stage idx returns once its process has ended. In a pipeline the
\* first error leaves the loop through handleCommandError; cmd.Run hands its
\* result to handleCommandError in every case.
WaitStage ==
    /\ pc = "wait"
    /\ procs[idx].st \notin {Unstarted, Running}
    /\ procs' = [procs EXCEPT ![idx].waited = TRUE]
    /\ LET e == waitErr(procs[idx].st)
       IN  IF e # Nil \/ Len(commands) = 1
           THEN /\ err' = e
                /\ pc' = "handle"
                /\ UNCHANGED <<handlers, ctxErr, result, newlines, idx>>
           ELSE IF lastStage(idx, commands)
           THEN Return(Nil, Nil, 0, "unread") /\ UNCHANGED idx
           ELSE /\ idx' = idx + 1
                /\ UNCHANGED <<pc, handlers, err, ctxErr, result, newlines>>
    /\ UNCHANGED <<historyFile, history, cwd, eof, nread, input, commands,
                   orphans, printed, appended, saveErr, intr>>

\* return handleCommandError(ctx, err)
HandleError ==
    /\ pc = "handle"
    /\ LET h == handleCommandError(Cur.cancelled, err)
       IN  Return(err, h.ret, h.nl,
                  IF err = Nil THEN "unread"
                  ELSE IF Cur.cancelled THEN "Canceled" ELSE "nil")
    /\ UNCHANGED <<historyFile, history, cwd, eof, nread, input, commands,
                   procs, idx, orphans, printed, appended, saveErr, intr>>

\* main: print the error, then saveHistory if shouldBeInHistory
Log ==
    /\ pc = "log"
    /\ printed' = result
    /\ IF shouldBeInHistory(commands) /\ historyFile # "nil"
       THEN \/ /\ history' = Append(history, input)
               /\ appended' = appended + 1
               /\ saveErr' = Nil
            \/ /\ saveErr' = WriteError
               /\ UNCHANGED <<history, appended>>
       ELSE UNCHANGED <<history, appended, saveErr>>
    /\ pc' = "read"
    /\ UNCHANGED <<historyFile, cwd, eof, nread, input, commands, handlers,
                   procs, idx, orphans, err, ctxErr, result, newlines, intr>>

\* a process of this pipeline ends by itself, with status zero or not
ProcExit ==
    /\ \E i \in running(procs), st \in {ExitedOK, ExitedFail} :
          procs' = [procs EXCEPT ![i].st = st]
    /\ UNCHANGED <<pc, historyFile, history, cwd, eof, nread, input, commands,
                   handlers, idx, orphans, err, ctxErr, result, newlines,
                   printed, appended, saveErr, intr>>

\* exec.CommandContext: a started process is killed once its context is done
ProcKill ==
    /\ handlers # <<>>
    /\ Cur.cancelled
    /\ \E i \in running(procs) :
          procs' = [procs EXCEPT ![i].st = KilledByCtx]
    /\ UNCHANGED <<pc, historyFile, history, cwd, eof, nread, input, commands,
                   handlers, idx, orphans, err, ctxErr, result, newlines,
                   printed, appended, saveErr, intr>>

\* a process of an earlier pipeline ends (by itself or killed by its context)
OrphanEnds ==
    /\ orphans > 0
    /\ orphans' = orphans - 1
    /\ UNCHANGED <<pc, historyFile, history, cwd, eof, nread, input, commands,
                   handlers, procs, idx, err, ctxErr, result, newlines,
                   printed, appended, saveErr, intr>>

\* SIGINT reaches the shell: signal.Notify sends it to every subscribed
\* channel without blocking (dropped when the channel is full); with no
\* subscription the runtime's default terminates the shell
Interrupt ==
    /\ intr < MaxInterrupts
    /\ pc \notin {"exited", "killed"}
    /\ intr' = intr + 1
    /\ IF \E g \in 1..Len(handlers) : handlers[g].subscribed
       THEN /\ handlers' = [g \in 1..Len(handlers) |->
                              IF handlers[g].subscribed
                              THEN [handlers[g] EXCEPT !.sigChan = 1, !.got = TRUE]
                              ELSE handlers[g]]
            /\ UNCHANGED pc
       ELSE /\ pc' = "killed"
            /\ UNCHANGED handlers
    /\ UNCHANGED <<historyFile, history, cwd, eof, nread, input, commands,
                   procs, idx, orphans, err, ctxErr, result, newlines,
                   printed, appended, saveErr>>

\* a goroutine whose cancel() is the one of the newest context, as it would be
\* with one context variable shared by all pipelines
WatcherRunSharedContext ==
    /\ \E g \in 1..Len(handlers) :
          /\ handlers[g].watcher = "blocked"
          /\ handlers[g].sigChan = 1
          /\ handlers' = [[handlers EXCEPT ![g].sigChan = 0,
                                           ![g].watcher = "done"]
                             EXCEPT ![Len(handlers)].cancelled = TRUE]
    /\ UNCHANGED <<pc, historyFile, history, cwd, eof, nread, input, commands,
                   procs, idx, orphans, err, ctxErr, result, newlines,
                   printed, appended, saveErr, intr>>

\* the goroutine of setupSignalHandler: <-sigChan; cancel()
WatcherRun ==
    /\ \E g \in 1..Len(handlers) :
          /\ handlers[g].watcher = "blocked"
          /\ handlers[g].sigChan = 1
          /\ handlers' = [handlers EXCEPT ![g].sigChan = 0,
                                          ![g].cancelled = TRUE,
                                          ![g].watcher = "done"]
    /\ UNCHANGED <<pc, historyFile, history, cwd, eof, nread, input, commands,
                   procs, idx, orphans, err, ctxErr, result, newlines,
                   printed, appended, saveErr, intr>>

Next ==
    \/ InitHistory
    \/ ReadLine
    \/ ExecEmpty
    \/ ExecExit
    \/ ExecCd
    \/ ExecHistory
    \/ ExecExternal
    \/ ExecMulti
    \/ CheckBuiltins
    \/ CreatePipes
    \/ StartStage
    \/ WaitStage
    \/ HandleError
    \/ Log
    \/ ProcExit
    \/ ProcKill
    \/ OrphanEnds
    \/ Interrupt
    \/ WatcherRun

Spec == Init /\ [][Next]_vars

\* ------------------------------------------------- parseInput on its own
\* the longest line handed to parseInput
MaxLen == 5

\* the characters of those lines
Alphabet == {"a", "b", SP, BAR, NL}

\* every line over Alphabet of at most n characters
Strs(n) == UNION {[1..k -> Alphabet] : k \in 0..n}

\* a line is about to be parsed
InitParse ==
    /\ pc = "parse"
    /\ input \in Strs(MaxLen)
    /\ historyFile = "nil"
    /\ history = <<>>
    /\ cwd = StartDir
    /\ eof = FALSE
    /\ nread = 0
    /\ commands = <<>>
    /\ handlers = <<>>
    /\ procs = <<>>
    /\ idx = 0
    /\ orphans = 0
    /\ err = Nil
    /\ ctxErr = "unread"
    /\ result = Nil
    /\ newlines = 0
    /\ printed = Nil
    /\ appended = 0
    /\ saveErr = Nil
    /\ intr = 0

\* main: commands, err := parseInput(input)
ParseLine ==
    /\ pc = "parse"
    /\ LET p == parseInput(input)
       IN  /\ commands' = p.commands
           /\ printed' = p.err
    /\ pc' = "parsed"
    /\ UNCHANGED <<historyFile, history, cwd, eof, nread, input, handlers,
                   procs, idx, orphans, err, ctxErr, result, newlines,
                   appended, saveErr, intr>>

SpecParse == InitParse /\ [][ParseLine]_vars

\* ------------------------------------- a pipeline and the pipes between it
\* The stages of this specification are processes that do what their streams
\* let them do. Stage 1 writes `todo` units to its output and exits. A later
\* stage reads its input until end-of-input, or (all = FALSE) until it has
\* read `quota` units, and then exits; a stage before the last writes each
\* unit it read (held) to its output before it reads again. A write to a pipe
\* with no read end left kills the writer (SIGPIPE); a write to a full pipe
\* waits. Every Start succeeds and no interrupt arrives.
\*
\* The record of stage i < N carries the pipe StdoutPipe made for it: buf,
\* the units in the pipe; shellW, the shell still holds the write end (Start
\* of stage i closes it); shellR, the shell still holds the read end, which
\* is cmds[i+1].Stdin (Wait of stage i closes it).

\* the stages of the longest pipeline
MaxStages == 3
\* the units a pipe holds before a write to it waits
PipeCap == 1
\* the most units a stage writes by itself, or reads before it exits early
MaxData == 2

\* a pipeline of n external commands
pipelineOf(n) == [i \in 1..n |-> Command(IF i = 1 THEN LS ELSE WC, <<>>)]

\* the exec.Cmd of stage i, its process's plan and the pipe at its output
Stage(c, todo, all, quota, piped) ==
    [st |-> c.st, waited |-> c.waited,
     stdin |-> c.stdin, stdout |-> c.stdout, stderr |-> c.stderr,
     todo |-> todo, all |-> all, quota |-> quota, held |-> 0,
     buf |-> 0, shellW |-> piped, shellR |-> piped]

\* some process or the shell holds the read end of the pipe after stage i
hasReader(ps, i) == ps[i].shellR \/ ps[i + 1].st = Running

\* some process or the shell holds the write end of the pipe after stage i
hasWriter(ps, i) == ps[i].shellW \/ ps[i].st = Running

\* executePipeline is about to start the stages of a wired pipeline
InitPipe ==
    /\ pc = "start"
    /\ idx = 1
    /\ \E n \in 2..MaxStages :
          /\ commands = pipelineOf(n)
          /\ \E todo \in 0..MaxData, quota \in [2..n -> 0..MaxData],
                all \in [2..n -> BOOLEAN] :
                procs = [i \in 1..n |->
                           LET c == wireTerminal(connectPipes(newCmds(n), 1))[i]
                           IN  IF i = 1 THEN Stage(c, todo, FALSE, 0, TRUE)
                               ELSE Stage(c, 0, all[i],
                                          IF all[i] THEN 0 ELSE quota[i], i < n)]
    /\ historyFile = "nil"
    /\ history = <<>>
    /\ cwd = StartDir
    /\ eof = FALSE
    /\ nread = 1
    /\ input = <<>>
    /\ handlers = <<setupSignalHandler>>
    /\ orphans = 0
    /\ err = Nil
    /\ ctxErr = "unread"
    /\ result = Nil
    /\ newlines = 0
    /\ printed = Nil
    /\ appended = 0
    /\ saveErr = Nil
    /\ intr = 0

\* cmd.Start of stage idx: the process runs and the shell closes its copy of
\* the write end of the stage's output pipe
PipeStart ==
    /\ pc = "start"
    /\ procs' = [procs EXCEPT ![idx].st = Running, ![idx].shellW = FALSE]
    /\ IF lastStage(idx, commands)
       THEN pc' = "wait" /\ idx' = 1
       ELSE pc' = "start" /\ idx' = idx + 1
    /\ UNCHANGED <<historyFile, history, cwd, eof, nread, input, commands,
                   handlers, orphans, err, ctxErr, result, newlines, printed,
                   appended, saveErr, intr>>

\* cmd.Wait of stage idx returns once its process has ended, and closes the
\* shell's copy of the read end of the stage's output pipe; the first error
\* leaves the loop (no context is cancelled here, so handleCommandError
\* returns it)
PipeWait ==
    /\ pc = "wait"
    /\ procs[idx].st \notin {Unstarted, Running}
    /\ procs' = [procs EXCEPT ![idx].waited = TRUE, ![idx].shellR = FALSE]
    /\ LET e == waitErr(procs[idx].st)
       IN  IF e # Nil
           THEN /\ LET h == handleCommandError(Cur.cancelled, e)
                   IN  Return(e, h.ret, h.nl, "nil")
                /\ UNCHANGED idx
           ELSE IF lastStage(idx, commands)
           THEN Return(Nil, Nil, 0, "unread") /\ UNCHANGED idx
           ELSE /\ idx' = idx + 1
                /\ UNCHANGED <<pc, handlers, err, ctxErr, result, newlines>>
    /\ UNCHANGED <<historyFile, history, cwd, eof, nread, input, commands,
                   orphans, printed, appended, saveErr, intr>>

\* a running stage writes one unit to the pipe at its output, or is killed
\* by SIGPIPE when the pipe has no read end left; the last stage writes to
\* the terminal
StageWrite ==
    /\ \E i \in running(procs) :
          /\ procs[i].todo > 0 \/ procs[i].held > 0
          /\ IF i = Len(procs)
             THEN procs' = [procs EXCEPT ![i].held = 0]
             ELSE IF ~hasReader(procs, i)
             THEN procs' = [procs EXCEPT ![i].st = ExitedFail]
             ELSE /\ procs[i].buf < PipeCap
                  /\ procs' = [procs EXCEPT
                        ![i].buf = @ + 1,
                        ![i].todo = IF procs[i].held > 0 THEN @ ELSE @ - 1,
                        ![i].held = 0]
    /\ UNCHANGED <<pc, historyFile, history, cwd, eof, nread, input, commands,
                   handlers, idx, orphans, err, ctxErr, result, newlines,
                   printed, appended, saveErr, intr>>

\* a running stage after the first, with nothing left to write and more to
\* read, takes one unit from the pipe at its input
StageRead ==
    /\ \E i \in running(procs) \ {1} :
          /\ procs[i].held = 0
          /\ procs[i].all \/ procs[i].quota > 0
          /\ procs[i - 1].buf > 0
          /\ procs' = [procs EXCEPT
                ![i - 1].buf = @ - 1,
                ![i].quota = IF procs[i].all THEN @ ELSE @ - 1,
                ![i].held = 1]
    /\ UNCHANGED <<pc, historyFile, history, cwd, eof, nread, input, commands,
                   handlers, idx, orphans, err, ctxErr, result, newlines,
                   printed, appended, saveErr, intr>>

\* a running stage exits with status zero: stage 1 when it has written all,
\* a later stage when it has read its quota, or at end-of-input (its pipe
\* empty with no write end left)
StageExit ==
    /\ \E i \in running(procs) :
          /\ procs[i].held = 0
          /\ procs[i].todo = 0
          /\ IF i = 1 THEN TRUE
             ELSE IF ~procs[i].all /\ procs[i].quota = 0 THEN TRUE
             ELSE procs[i - 1].buf = 0 /\ ~hasWriter(procs, i - 1)
          /\ procs' = [procs EXCEPT ![i].st = ExitedOK]
    /\ UNCHANGED <<pc, historyFile, history, cwd, eof, nread, input, commands,
                   handlers, idx, orphans, err, ctxErr, result, newlines,
                   printed, appended, saveErr, intr>>

NextPipe ==
    \/ PipeStart
    \/ PipeWait
    \/ StageWrite
    \/ StageRead
    \/ StageExit

\* the shell and every process take the steps they can take
SpecPipe == InitPipe /\ [][NextPipe]_vars /\ WF_vars(NextPipe)

\* ------------------------------------------------------------------ claims
\* the line being executed is a pipeline of two stages or more
Multi == Len(commands) > 1

\* some stage of the line is named cd or exit
NamesBuiltin ==
    \E i \in 1..Len(commands) : commands[i].name \in {CD, EXIT}

\* the line is one the history log records
Eligible ==
    \/ Len(commands) > 1
    \/ Len(commands) = 1 /\ commands[1].name \notin {HISTORY, EXIT}

\* C1: in a pipeline, once the wait on a stage has returned an error that is
\* not a cancellation, every stage has been waited on by the time
\* executePipeline returns, and that first error is what it returns.
C1_WaitsOnEveryStage ==
    (pc = "log" /\ Multi /\ err = ExitError /\ ctxErr = "nil")
        => /\ \A i \in 1..Len(procs) : procs[i].waited
           /\ result = err

\* C2: when a wait has failed and handleCommandError found the token
\* cancelled, the executor returns nil and has printed exactly one newline
\* for the pipeline, whatever the number of stages; no pipeline prints more
\* than one, and an interrupt ends the shell only when no subscription exists.
C2_CancelledWaitIsSuppressed ==
    /\ (pc = "log" /\ err \in {ExitError, Killed} /\ ctxErr = "Canceled")
           => (result = Nil /\ newlines = 1)
    /\ newlines <= 1
    /\ pc = "killed" => \A g \in 1..Len(handlers) : ~handlers[g].subscribed

C2_Witness ==
    /\ pc = "log"
    /\ Len(commands) = 3
    /\ Cur.got
    /\ err = Killed
    /\ ctxErr = "Canceled"
    /\ result = Nil
    /\ newlines = 1

\* C3: whenever the wait on a stage failed because the process exited nonzero
\* by itself, the executor returns that error to main, wherever the interrupt
\* falls.
C3_OwnFailureIsReturned ==
    (pc = "log" /\ err = ExitError) => result = ExitError

\* C4: in a pipeline whose stages are all external and in which nothing
\* failed by itself (no pipe, no start, no process), an interrupt delivered
\* after the token was created makes executePipeline return no error.
C4_InterruptMeansNoError ==
    (pc = "log" /\ Multi /\ ~NamesBuiltin /\ Cur.got
                /\ err \in {Nil, CtxCanceled, Killed})
        => result = Nil

\* C5: in a pipeline of N stages, whenever Wait has been invoked on a stage,
\* Start has been invoked on all N stages.
C5_StartBeforeWait ==
    (Multi /\ (pc = "wait" \/ \E i \in 1..Len(procs) : procs[i].waited))
        => /\ Len(procs) = Len(commands)
           /\ \A i \in 1..Len(procs) : procs[i].st # Unstarted

C5_Witness ==
    /\ pc = "wait"
    /\ Len(commands) = 3
    /\ idx = 2
    /\ procs[1].waited
    /\ procs[3].st = Running

\* C6: a pipeline of two stages or more with a stage named cd or exit, at any
\* position, spawns no process, does not exit the shell, returns the
\* BuiltinInPipeline error, and leaves the working directory as it was.
C6_BuiltinInPipelineRejected ==
    /\ []((Multi /\ NamesBuiltin)
             => /\ procs = <<>>
                /\ pc # "exited"
                /\ pc = "log" => result = BuiltinInPipeline)
    /\ [][(Multi /\ NamesBuiltin /\ pc # "read") => cwd' = cwd]_vars

C6_Witness ==
    /\ pc = "log"
    /\ Len(commands) = 2
    /\ commands[2].name = EXIT
    /\ result = BuiltinInPipeline
    /\ procs = <<>>
    /\ newlines = 0

\* C7: no subscription is active outside the executor (while main prompts,
\* reads, dispatches or logs, or after the shell has ended), and from
\* setupSignalHandler until the executor returns exactly the subscription of
\* the current pipeline is active, so it is there before any process starts.
C7_SubscriptionScopedToPipeline ==
    /\ pc \in {"init", "read", "exec", "log", "exited", "killed"}
           => \A g \in 1..Len(handlers) : ~handlers[g].subscribed
    /\ pc \in {"check", "pipe", "start", "wait", "handle"}
           => /\ handlers # <<>>
              /\ \A g \in 1..Len(handlers) :
                     handlers[g].subscribed <=> g = Len(handlers)
    /\ (\E i \in 1..Len(procs) : procs[i].st # Unstarted) => handlers # <<>>

C7_Witness ==
    /\ pc = "log"
    /\ Multi
    /\ err = StartError
    /\ procs[1].st = Running
    /\ Cur.got
    /\ ~Cur.subscribed

\* C8: when main is about to read the next line, no process spawned for an
\* earlier line is still running.
C8_NoProcessAtRead ==
    pc = "read" => (orphans = 0 /\ running(procs) = {})

\* C9 as stated: once a line has been dealt with, the log has gained exactly
\* one entry for it if and only if the line is eligible, and it gains none
\* before the pipeline has finished.
C9_OneEntryIffEligible ==
    /\ pc \in {"read", "exited"} => (appended = 1 <=> Eligible)
    /\ pc \in {"exec", "check", "pipe", "start", "wait", "handle", "log"}
           => appended = 0

\* C9 amended: the same, provided the history log was opened at startup and
\* the write succeeded; the entry is the raw line, last in the log.
C9_OneEntryIffEligibleAndWritten ==
    /\ pc \in {"read", "exited"}
           => /\ appended = 1 <=>
                     (Eligible /\ historyFile = "open" /\ saveErr = Nil)
              /\ appended <= 1
              /\ appended = 1 => (history # <<>> /\ history[Len(history)] = input)
    /\ pc \in {"exec", "check", "pipe", "start", "wait", "handle", "log"}
           => appended = 0

C9_Witness ==
    /\ pc = "read"
    /\ appended = 1
    /\ Len(commands) = 2
    /\ commands[2].name = EXIT
    /\ result = BuiltinInPipeline
    /\ history = <<input>>

\* C10: once a single-stage exit has ended the shell, the history handle
\* opened at startup has been closed.
C10_ExitReleasesHistory ==
    pc = "exited" => historyFile = closeHistory(historyFile)


\* ---------------------------------------------------- claims on parseInput
\* the line has nothing but whitespace
Blank(s) == \A k \in 1..Len(s) : IsSpace(s[k])

\* the first and the last position of s that hold no whitespace
FirstInk(s) == CHOOSE k \in 1..Len(s) :
                   ~IsSpace(s[k]) /\ \A m \in 1..(k - 1) : IsSpace(s[m])
LastInk(s) == CHOOSE k \in 1..Len(s) :
                  ~IsSpace(s[k]) /\ \A m \in (k + 1)..Len(s) : IsSpace(s[m])

\* positions lo < hi bound a segment of the trimmed line: each is a `|` or
\* the edge of the trimmed line, with no `|` strictly between them
IsSegment(s, lo, hi) ==
    /\ lo < hi
    /\ lo = FirstInk(s) - 1 \/ s[lo] = BAR
    /\ hi = LastInk(s) + 1 \/ s[hi] = BAR
    /\ \A m \in (lo + 1)..(hi - 1) : s[m] # BAR

\* some segment of the trimmed line holds no token
HasEmptySegment(s) ==
    \E lo \in (FirstInk(s) - 1)..LastInk(s), hi \in FirstInk(s)..(LastInk(s) + 1) :
        /\ IsSegment(s, lo, hi)
        /\ \A m \in (lo + 1)..(hi - 1) : IsSpace(s[m])

\* C11: parseInput returns a SyntaxError exactly when the line does not trim
\* to empty and one of its `|`-separated segments holds no token; it then
\* returns no stage; a line that trims to empty gives the empty pipeline and
\* no error.
C11_SyntaxErrorIffEmptySegment ==
    pc = "parsed" =>
        /\ printed \in {Nil, SyntaxError}
        /\ printed = SyntaxError <=> (~Blank(input) /\ HasEmptySegment(input))
        /\ printed = SyntaxError => commands = <<>>
        /\ Blank(input) => (commands = <<>> /\ printed = Nil)

C11_Witness ==
    /\ pc = "parsed"
    /\ input = <<"a", BAR, SP, BAR, "b">>
    /\ printed = SyntaxError
    /\ commands = <<>>

\* the number of `|` in the line
Bars(s) == Cardinality({k \in 1..Len(s) : s[k] = BAR})

\* a token: one character or more, none of them whitespace or `|`
IsToken(w) == w # <<>> /\ \A k \in 1..Len(w) : ~IsSpace(w[k]) /\ w[k] # BAR

\* words written one after the other with one space between two of them
RECURSIVE JoinWords(_)
JoinWords(ws) ==
    IF ws = <<>> THEN <<>>
    ELSE IF Len(ws) = 1 THEN ws[1]
    ELSE ws[1] \o <<SP>> \o JoinWords(Tail(ws))

\* a pipeline written out: name and args of each stage with one space
\* between them, the stages with one `|` between them
RECURSIVE Render(_)
Render(cmds) ==
    IF cmds = <<>> THEN <<>>
    ELSE LET stage == JoinWords(<<cmds[1].name>> \o cmds[1].args)
         IN  IF Len(cmds) = 1 THEN stage
             ELSE stage \o <<BAR>> \o Render(Tail(cmds))

\* the whitespace at k is the first of a run that separates two tokens of
\* the same segment
SeparatesTokens(s, k) ==
    /\ k > 1
    /\ ~IsSpace(s[k - 1])
    /\ s[k - 1] # BAR
    /\ \E m \in (k + 1)..Len(s) :
          /\ ~IsSpace(s[m])
          /\ s[m] # BAR
          /\ \A j \in (k + 1)..(m - 1) : IsSpace(s[j])

\* the line from position k on with every run of whitespace between two
\* tokens of a segment made one space and all other whitespace dropped
RECURSIVE Normalize(_, _)
Normalize(s, k) ==
    IF k > Len(s) THEN <<>>
    ELSE (IF ~IsSpace(s[k]) THEN <<s[k]>>
          ELSE IF SeparatesTokens(s, k) THEN <<SP>> ELSE <<>>)
         \o Normalize(s, k + 1)

\* C12: when parseInput succeeds on a line that is not blank and has k `|`,
\* it returns k+1 stages, each with a name that is a token and args that are
\* tokens, and written out in order they are the line itself with its
\* whitespace normalized: stage i is the tokens of segment i, the first of
\* them its name.
C12_StagesAreTheSegments ==
    (pc = "parsed" /\ printed = Nil /\ ~Blank(input)) =>
        /\ Len(commands) = Bars(input) + 1
        /\ \A i \in 1..Len(commands) :
              /\ IsToken(commands[i].name)
              /\ \A j \in 1..Len(commands[i].args) : IsToken(commands[i].args[j])
        /\ Render(commands) = Normalize(input, 1)

C12_Witness ==
    /\ pc = "parsed"
    /\ input = <<"a", BAR, "b", SP, "a">>
    /\ printed = Nil
    /\ commands = <<Command(<<"a">>, <<>>), Command(<<"b">>, <<<<"a">>>>)>>

\* ------------------------------------------- claims on the shell (continued)
\* the line being executed is a single-stage cd
SingleCd == Len(commands) = 1 /\ commands[1].name = CD

\* C13: the working directory changes only in the execution of a single-stage
\* cd that succeeds, and then to args[0] if there is one, else to the home
\* directory; a single-stage cd that fails returns the error of os.Chdir and
\* leaves the directory as it was, as does every other step of every line.
C13_OnlyCdChangesDirectory ==
    /\ [][cwd' # cwd =>
              /\ pc = "exec"
              /\ SingleCd
              /\ result' = Nil
              /\ cwd' = IF commands[1].args = <<>> THEN Home
                        ELSE commands[1].args[1]]_vars
    /\ [][(pc = "exec" /\ SingleCd /\ pc' = "log") =>
              /\ result' \in {Nil, ChdirError}
              /\ result' = ChdirError => cwd' = cwd
              /\ result' = Nil =>
                     cwd' = IF commands[1].args = <<>> THEN Home
                            ELSE commands[1].args[1]]_vars

C13_Witness ==
    /\ pc = "log"
    /\ SingleCd
    /\ commands[1].args = <<<<"x">>>>
    /\ result = Nil
    /\ cwd = <<"x">>

\* C14: in a pipeline of N stages, from the first Start on, stage 1 reads the
\* shell's input; for every i < N the output of stage i is the write end and
\* the input of stage i+1 the read end of one pipe; stage N writes to the
\* shell's output and error; no stage before the last has the shell's error
\* stream.
C14_StreamWiring ==
    (Multi /\ pc \in {"start", "wait", "handle"}) =>
        /\ Len(procs) = Len(commands)
        /\ procs[1].stdin = OsStdin
        /\ \A i \in 1..(Len(procs) - 1) :
              /\ procs[i].stdout = PipeWrite(i)
              /\ procs[i + 1].stdin = PipeRead(i)
              /\ procs[i].stderr # OsStderr
        /\ procs[Len(procs)].stdout = OsStdout
        /\ procs[Len(procs)].stderr = OsStderr

C14_Witness ==
    /\ pc = "start"
    /\ Len(commands) = 3
    /\ idx = 3
    /\ procs[2].st = Running
    /\ procs[2].stdin = PipeRead(1)
    /\ procs[2].stdout = PipeWrite(2)
    /\ procs[2].stderr = NilStream

\* C15: every entry of the history log is the raw line read for its
\* iteration and ends with a newline, however the read of that line ended.
C15_EntriesEndWithNewline ==
    /\ (pc = "read" /\ appended = 1) => history[Len(history)] = input
    /\ \A k \in 1..Len(history) :
          history[k] # <<>> /\ history[k][Len(history[k])] = NL

\* ------------------------------------------------------ claims on the pipes
\* C16: a pipeline whose stages exit at end-of-input, at a broken pipe or when
\* done is never stuck: until executePipeline has returned, the shell or one
\* of the processes can take a step (so that, every step that can be taken
\* being taken, the pipeline completes with no interrupt).
C16_PipelineNeverStuck ==
    pc = "log" \/ ENABLED NextPipe

\* C17: when executePipeline returns from a pipeline after a Start or a Wait
\* gave an error, every stage whose process was started has been waited on.
C17_StartedStagesAreReaped ==
    (pc = "log" /\ Multi /\ err # Nil)
        => \A i \in 1..Len(procs) :
              procs[i].st # Unstarted => procs[i].waited

\* the line is run as processes under a context of its own
Spawns ==
    \/ Multi
    \/ Len(commands) = 1 /\ commands[1].name \notin {CD, EXIT, HISTORY}

\* C18: the context of a pipeline is cancelled before its cleanup only if an
\* interrupt was delivered to that pipeline's own channel; handleCommandError
\* finds the context cancelled only in that case, and a pipeline that got no
\* interrupt returns its error as it is, whatever earlier pipelines got.
C18_TokensAreIsolated ==
    /\ \A g \in 1..Len(handlers) :
          (handlers[g].subscribed /\ handlers[g].cancelled) => handlers[g].got
    /\ (pc = "log" /\ ctxErr = "Canceled") => Cur.got
    /\ (pc = "log" /\ Spawns /\ ~Cur.got) => result = err

C18_Witness ==
    /\ pc = "log"
    /\ Len(handlers) = 2
    /\ handlers[1].got
    /\ handlers[1].sigChan = 1
    /\ handlers[1].watcher = "blocked"
    /\ ~handlers[2].got
    /\ err = ExitError
    /\ ctxErr = "nil"
    /\ result = ExitError

\* C19: once the cleanup of a pipeline has run, its watcher goroutine has
\* ended or can still end: it is not left blocked on a channel that is
\* unsubscribed and empty, on which nothing will ever arrive.
C19_WatcherEndsAfterCleanup ==
    \A g \in 1..Len(handlers) :
        (~handlers[g].subscribed /\ handlers[g].watcher = "blocked")
            => handlers[g].sigChan = 1

\* C20: once standard input is at its end and a read has returned no data,
\* the shell has terminated: main does not go on to run that empty line and
\* prompt again.
C20_EndOfInputEndsTheShell ==
    (eof /\ input = <<>>) => pc \in {"exited", "killed"}

====
